---- MODULE Spec2Model ----
(***************************************************************************)
(* Model of oci.go of the kata agent: writeSpecToFile (persist),           *)
(* changeToBundlePath (enterBundle), isValidHook and findHooks (discover), *)
(* over an explicit filesystem (directories, files with mode and content,  *)
(* the process-wide working directory, the hook directory tree).           *)
(*                                                                         *)
(* Paths are sequences of components.  A rooted path such as               *)
(* /run/libcontainer is <<"run", "libcontainer">>; a path string that may  *)
(* be relative or empty (spec.Root.Path) is a record [abs, comps].  File   *)
(* content is a sequence of tokens, one token per group of bytes of the    *)
(* JSON text.                                                              *)
(***************************************************************************)
EXTENDS Integers, Sequences, FiniteSets, TLC

VARIABLES
    dirs,        \* the directories that exist (rooted paths)
    files,       \* the regular files that exist: rooted path -> [mode, data]
    cwd,         \* the process-wide working directory (rooted path)
    privileged,  \* whether the process bypasses file permission bits (root)
    hookFs,      \* the hook tree: hook type -> state of <hookRoot>/<hookType>
    last,        \* the last call: its arguments, its results, the cwd around it
    persistCalled,  \* ids for which writeSpecToFile has been called
    persistOpened,  \* ids for which a writeSpecToFile call got past OpenFile
    persistOk,      \* ids for which a writeSpecToFile call returned nil
    section      \* per caller: the enterBundle-to-restore section it is in

vars == <<dirs, files, cwd, privileged, hookFs, last,
          persistCalled, persistOpened, persistOk, section>>

----------------------------------------------------------------------------
(* Bounds *)

\* most entries in a hook directory the model enumerates
MaxEntries == 2

\* number of concurrent callers of enterBundle
MaxCallers == 2

----------------------------------------------------------------------------
(* Constants of oci.go *)

ociConfigFile == "config.json"

\* 0444
ociConfigFileMode == 292

ociConfigBasePath == <<"run", "libcontainer">>

----------------------------------------------------------------------------
(* Paths: path/filepath *)

RECURSIVE CleanOnto(_, _)
\* filepath.Clean of a rooted path, component by component: "" and "." are
\* dropped, ".." removes the component before it (and nothing at the root).
CleanOnto(done, rest) ==
    IF rest = <<>> THEN done
    ELSE LET c == Head(rest) IN
         IF c = "" \/ c = "." THEN CleanOnto(done, Tail(rest))
         ELSE IF c = ".."
              THEN CleanOnto(IF done = <<>> THEN done
                             ELSE SubSeq(done, 1, Len(done) - 1), Tail(rest))
              ELSE CleanOnto(Append(done, c), Tail(rest))

Clean(p) == CleanOnto(<<>>, p)

\* filepath.Join / path.Join of rooted paths and names: concatenate, then Clean
Join(a, b) == Clean(a \o b)

\* the empty path string ""
EmptyPath == [abs |-> FALSE, comps |-> <<>>]

\* the path string "."
DotPath == [abs |-> FALSE, comps |-> <<".">>]

\* filepath.Dir of a path string: all but the last component; "." when nothing
\* is left of a relative path, "/" when nothing is left of a rooted one
Dir(p) ==
    IF Len(p.comps) <= 1
    THEN IF p.abs THEN [abs |-> TRUE, comps |-> <<>>] ELSE DotPath
    ELSE [abs |-> p.abs, comps |-> SubSeq(p.comps, 1, Len(p.comps) - 1)]

\* the rooted path a path string names for a process whose cwd is wd
Resolve(wd, p) == IF p.abs THEN Clean(p.comps) ELSE Clean(wd \o p.comps)

\* the proper prefixes of a rooted path and the path itself (root excluded)
Prefixes(p) == { SubSeq(p, 1, n) : n \in 1..Len(p) }

----------------------------------------------------------------------------
(* The specs the callers pass: specs.Spec, reduced to Root.Path *)

AbsPath(cs) == [abs |-> TRUE, comps |-> cs]

\* spec == nil
NilSpec == [present |-> FALSE, Root |-> [present |-> FALSE, Path |-> EmptyPath]]

\* spec.Root == nil
NoRootSpec == [present |-> TRUE, Root |-> [present |-> FALSE, Path |-> EmptyPath]]

SpecOf(p) == [present |-> TRUE, Root |-> [present |-> TRUE, Path |-> p]]

\* the specs a caller persists
PersistSpecs ==
    { NoRootSpec,
      SpecOf(AbsPath(<<"bundles", "c1", "rootfs">>)),
      SpecOf(AbsPath(<<"bundles", "deep", "c2", "rootfs">>)) }

\* the specs a caller passes to changeToBundlePath: those, and a nil spec, an
\* empty Root.Path, a bundle directory that does not exist, a relative path
Specs ==
    PersistSpecs \cup
    { NilSpec,
      SpecOf(EmptyPath),
      SpecOf(AbsPath(<<"bundles", "gone", "rootfs">>)),
      SpecOf([abs |-> FALSE, comps |-> <<"rootfs">>]) }

\* a spec usable by changeToBundlePath: Root present, Root.Path non-empty
WellFormed(spec) ==
    spec.present /\ spec.Root.present /\ spec.Root.Path # EmptyPath

\* container ids are plain names: one path component each, none of "", ".", ".."
ContainerIds == { "c1", "c2" }

\* the directories present before the agent runs
InitialDirs ==
    { <<>>, <<"run">>, <<"bundles">>, <<"bundles", "c1">>,
      <<"bundles", "deep">>, <<"bundles", "deep", "c2">> }

----------------------------------------------------------------------------
(* encoding/json: json.NewEncoder(f).Encode(spec) *)

PathTokens(p) == (IF p.abs THEN <<"/">> ELSE <<>>) \o p.comps

\* the JSON text of a spec followed by a newline, as a sequence of tokens;
\* "root" is omitted when Root is nil (omitempty), a nil spec encodes as null
Encode(spec) ==
    IF ~spec.present THEN <<"null", "\n">>
    ELSE IF ~spec.Root.present THEN <<"{", "ociVersion", "}", "\n">>
    ELSE <<"{", "ociVersion", "root", "{", "path">>
         \o PathTokens(spec.Root.Path) \o <<"}", "}", "\n">>

\* what the file's Write may accept of buf: nothing, half of it, or all of it
Accepted(buf) == { 0, Len(buf) \div 2, Len(buf) }

\* a write of buf at offset 0 of a file holding old, of which n tokens are
\* accepted: the tokens of old past n stay (no O_TRUNC, no O_APPEND)
WriteAt0(old, buf, n) ==
    SubSeq(buf, 1, n) \o (IF Len(old) > n THEN SubSeq(old, n + 1, Len(old)) ELSE <<>>)

----------------------------------------------------------------------------
(* The filesystem calls *)

CanonicalConfigPath(containerId) ==
    Join(Join(ociConfigBasePath, <<containerId>>), <<ociConfigFile>>)

\* os.Stat succeeds
Exists(p) == p \in dirs \/ p \in DOMAIN files

\* permission bits: any of the write bits 0222
HasWriteBit(mode) ==
    \/ (mode \div 2) % 2 = 1
    \/ (mode \div 16) % 2 = 1
    \/ (mode \div 128) % 2 = 1

\* os.MkdirAll(p, 0700): fails when a component of p is a file
MkdirAllErr(p) ==
    IF \E q \in Prefixes(p) : q \in DOMAIN files THEN "ENOTDIR" ELSE "nil"

\* os.OpenFile(p, O_WRONLY|O_CREATE, mode): creates p when absent; an existing
\* file is opened for writing only if its mode allows or the process is root
OpenFileErr(p) ==
    IF p \in dirs THEN "EISDIR"
    ELSE IF p \in DOMAIN files /\ ~HasWriteBit(files[p].mode) /\ ~privileged
         THEN "EACCES"
         ELSE "nil"

\* files with p bound to f
WithFile(fs, p, f) ==
    [q \in DOMAIN fs \cup {p} |-> IF q = p THEN f ELSE fs[q]]

----------------------------------------------------------------------------
(* writeSpecToFile, oci.go 30-44.  n is the number of tokens the file's    *)
(* Write accepts; Encode returns an error iff n is short of the encoding.  *)

\* writeSpecToFile with the file opened O_WRONLY alone, O_CREATE forgotten
writeSpecToFile_NoCreate(spec, containerId, n) ==
    LET configJsonDir == Join(ociConfigBasePath, <<containerId>>)
        configPath == Join(configJsonDir, <<ociConfigFile>>)
        dirs1 == dirs \cup Prefixes(configJsonDir)
        opErr == IF configPath \notin DOMAIN files THEN "ENOENT"
                 ELSE OpenFileErr(configPath)
        buf == Encode(spec)
    IN  IF MkdirAllErr(configJsonDir) # "nil"
        THEN [err |-> MkdirAllErr(configJsonDir), opened |-> FALSE,
              dirs |-> dirs, files |-> files]
        ELSE IF opErr # "nil"
        THEN [err |-> opErr, opened |-> FALSE, dirs |-> dirs1, files |-> files]
        ELSE [err |-> IF n < Len(buf) THEN "EIO" ELSE "nil", opened |-> TRUE,
              dirs |-> dirs1,
              files |-> WithFile(files, configPath,
                          [mode |-> files[configPath].mode,
                           data |-> WriteAt0(files[configPath].data, buf, n)])]

writeSpecToFile(spec, containerId, n) ==
    LET configJsonDir == Join(ociConfigBasePath, <<containerId>>)
        configPath == Join(configJsonDir, <<ociConfigFile>>)
        mkErr == MkdirAllErr(configJsonDir)
        dirs1 == dirs \cup Prefixes(configJsonDir)
        opErr == OpenFileErr(configPath)
        f0 == IF configPath \in DOMAIN files THEN files[configPath]
              ELSE [mode |-> ociConfigFileMode, data |-> <<>>]
        buf == Encode(spec)
        f1 == [mode |-> f0.mode, data |-> WriteAt0(f0.data, buf, n)]
    IN  IF mkErr # "nil"
        THEN [err |-> mkErr, opened |-> FALSE, dirs |-> dirs, files |-> files]
        ELSE IF opErr # "nil"
        THEN [err |-> opErr, opened |-> FALSE, dirs |-> dirs1, files |-> files]
        ELSE [err |-> IF n < Len(buf) THEN "EIO" ELSE "nil", opened |-> TRUE,
              dirs |-> dirs1, files |-> WithFile(files, configPath, f1)]

NoCall == [op |-> "none"]

Callers == 1..MaxCallers

NoSection == [open |-> FALSE]

\* a call of writeSpecToFile with a spec of specs and an id of ids
PersistOf(specs, ids) ==
    \E spec \in specs, containerId \in ids :
      \E n \in Accepted(Encode(spec)) :
        LET r == writeSpecToFile(spec, containerId, n) IN
        /\ dirs' = r.dirs
        /\ files' = r.files
        /\ persistCalled' = persistCalled \cup {containerId}
        /\ persistOpened' = persistOpened \cup (IF r.opened THEN {containerId} ELSE {})
        /\ persistOk' = persistOk \cup (IF r.err = "nil" THEN {containerId} ELSE {})
        /\ last' = [op |-> "persist", spec |-> spec, id |-> containerId,
                    err |-> r.err,
                    hadFile |-> CanonicalConfigPath(containerId) \in DOMAIN files]
        /\ UNCHANGED <<cwd, privileged, hookFs, section>>

Persist == PersistOf(PersistSpecs, ContainerIds)

----------------------------------------------------------------------------
(* changeToBundlePath, oci.go 48-68 *)

InvalidSpec == "invalid OCI spec"

InvalidBundle == "invalid OCI bundle"

\* what os.Getwd returns with an error
NoDir == <<"">>

\* os.Getwd: fails when the working directory no longer exists (no call of
\* oci.go removes a directory, so it does not fail here)
GetwdErr == IF cwd \in dirs THEN "nil" ELSE "ENOENT"

\* os.Chdir(p): the error, for a process whose cwd is wd
ChdirErr(wd, p) ==
    IF p = EmptyPath THEN "ENOENT"
    ELSE IF Resolve(wd, p) \in DOMAIN files THEN "ENOTDIR"
    ELSE IF Resolve(wd, p) \notin dirs THEN "ENOENT"
    ELSE "nil"

\* changeToBundlePath without the os.Stat of config.json
changeToBundlePath_NoStat(spec, containerId) ==
    LET bundlePath == Dir(spec.Root.Path)
        chErr == ChdirErr(cwd, bundlePath)
    IN  IF GetwdErr # "nil"
        THEN [cwd |-> NoDir, err |-> GetwdErr, newCwd |-> cwd]
        ELSE IF ~spec.present \/ ~spec.Root.present \/ spec.Root.Path = EmptyPath
        THEN [cwd |-> cwd, err |-> InvalidSpec, newCwd |-> cwd]
        ELSE [cwd |-> cwd, err |-> chErr,
              newCwd |-> IF chErr = "nil" THEN Resolve(cwd, bundlePath) ELSE cwd]

\* changeToBundlePath with the container id left out of configPath
changeToBundlePath_NoId(spec, containerId) ==
    LET bundlePath == Dir(spec.Root.Path)
        configPath == ociConfigBasePath
        chErr == ChdirErr(cwd, bundlePath)
    IN  IF GetwdErr # "nil"
        THEN [cwd |-> NoDir, err |-> GetwdErr, newCwd |-> cwd]
        ELSE IF ~spec.present \/ ~spec.Root.present \/ spec.Root.Path = EmptyPath
        THEN [cwd |-> cwd, err |-> InvalidSpec, newCwd |-> cwd]
        ELSE IF ~Exists(configPath)
        THEN [cwd |-> cwd, err |-> InvalidBundle, newCwd |-> cwd]
        ELSE [cwd |-> cwd, err |-> chErr,
              newCwd |-> IF chErr = "nil" THEN Resolve(cwd, bundlePath) ELSE cwd]

\* changeToBundlePath returning "" with its own errors, as for a failed Getwd
changeToBundlePath_EmptyOnError(spec, containerId) ==
    LET bundlePath == Dir(spec.Root.Path)
        configPath == Join(Join(ociConfigBasePath, <<containerId>>), <<ociConfigFile>>)
        chErr == ChdirErr(cwd, bundlePath)
    IN  IF GetwdErr # "nil"
        THEN [cwd |-> NoDir, err |-> GetwdErr, newCwd |-> cwd]
        ELSE IF ~spec.present \/ ~spec.Root.present \/ spec.Root.Path = EmptyPath
        THEN [cwd |-> NoDir, err |-> InvalidSpec, newCwd |-> cwd]
        ELSE IF ~Exists(configPath)
        THEN [cwd |-> NoDir, err |-> InvalidBundle, newCwd |-> cwd]
        ELSE [cwd |-> cwd, err |-> chErr,
              newCwd |-> IF chErr = "nil" THEN Resolve(cwd, bundlePath) ELSE cwd]

\* changeToBundlePath reading the working directory after os.Chdir
changeToBundlePath_GetwdLate(spec, containerId) ==
    LET bundlePath == Dir(spec.Root.Path)
        configPath == Join(Join(ociConfigBasePath, <<containerId>>), <<ociConfigFile>>)
        chErr == ChdirErr(cwd, bundlePath)
        newCwd == IF chErr = "nil" THEN Resolve(cwd, bundlePath) ELSE cwd
    IN  IF GetwdErr # "nil"
        THEN [cwd |-> NoDir, err |-> GetwdErr, newCwd |-> cwd]
        ELSE IF ~spec.present \/ ~spec.Root.present \/ spec.Root.Path = EmptyPath
        THEN [cwd |-> cwd, err |-> InvalidSpec, newCwd |-> cwd]
        ELSE IF ~Exists(configPath)
        THEN [cwd |-> cwd, err |-> InvalidBundle, newCwd |-> cwd]
        ELSE [cwd |-> newCwd, err |-> chErr, newCwd |-> newCwd]

\* the result: the returned cwd, the returned error, the process's cwd after
changeToBundlePath(spec, containerId) ==
    LET bundlePath == Dir(spec.Root.Path)
        configPath == Join(Join(ociConfigBasePath, <<containerId>>), <<ociConfigFile>>)
        chErr == ChdirErr(cwd, bundlePath)
    IN  IF GetwdErr # "nil"
        THEN [cwd |-> NoDir, err |-> GetwdErr, newCwd |-> cwd]
        ELSE IF ~spec.present \/ ~spec.Root.present \/ spec.Root.Path = EmptyPath
        THEN [cwd |-> cwd, err |-> InvalidSpec, newCwd |-> cwd]
        ELSE IF ~Exists(configPath)
        THEN [cwd |-> cwd, err |-> InvalidBundle, newCwd |-> cwd]
        ELSE [cwd |-> cwd, err |-> chErr,
              newCwd |-> IF chErr = "nil" THEN Resolve(cwd, bundlePath) ELSE cwd]

EnterBundle ==
    \E spec \in Specs, containerId \in ContainerIds :
        LET r == changeToBundlePath(spec, containerId) IN
        /\ cwd' = r.newCwd
        /\ last' = [op |-> "enterBundle", spec |-> spec, id |-> containerId,
                    cwdBefore |-> cwd, ret |-> r.cwd, err |-> r.err]
        /\ UNCHANGED <<dirs, files, privileged, hookFs,
                       persistCalled, persistOpened, persistOk, section>>

----------------------------------------------------------------------------
(* The hook tree.  A directory entry is what Lstat reports of it: its name, *)
(* its file type and its permission bits.                                   *)

HookRoot == <<"usr", "share", "oci", "hooks">>

\* a hook root under which there is nothing
OtherRoot == <<"opt", "hooks">>

HookRoots == { HookRoot, OtherRoot }

HookTypes == { "prestart", "poststart" }

\* file names, in ascending order of Go's string comparison
NameOrder == <<"a", "b", "c", "d">>

\* the names the enumerated directories draw from
EntryNames == { "a", "b", "c" }

\* os.FileMode type bits: none (regular), ModeDir, ModeSymlink, ModeNamedPipe,
\* ModeSocket, ModeDevice
EntryTypes == { "regular", "dir", "symlink", "fifo", "socket", "device" }

\* 0644, 0755, 0010
EntryPerms == { 420, 493, 8 }

Entries == [name : EntryNames, type : EntryTypes, perm : EntryPerms]

\* directories as the OS reports them: up to MaxEntries entries, names distinct
Listings ==
    UNION { { l \in [1..n -> Entries] :
                \A i, j \in 1..n : i # j => l[i].name # l[j].name } : n \in 0..MaxEntries }

Listable(l) == [kind |-> "dir", entries |-> l]

\* <hookRoot>/<hookType> is absent, unreadable, or not a directory
Unlistable == { [kind |-> k, entries |-> <<>>] : k \in { "absent", "denied", "notdir" } }

\* the directory of the spec's section 8: executable a, directory b, symlink c, non-executable d,
\* reported by the OS in an order that is not the alphabetical one
ExampleListing ==
    << [name |-> "d", type |-> "regular", perm |-> 420],
       [name |-> "c", type |-> "symlink", perm |-> 493],
       [name |-> "a", type |-> "regular", perm |-> 493],
       [name |-> "b", type |-> "dir", perm |-> 493] >>

Rank(name) == CHOOSE i \in 1..Len(NameOrder) : NameOrder[i] = name

\* sort.Slice(list, func(i, j) { return list[i].Name() < list[j].Name() })
RECURSIVE SortByName(_)
SortByName(l) ==
    IF l = <<>> THEN <<>>
    ELSE LET m == CHOOSE i \in 1..Len(l) :
                    \A j \in 1..Len(l) : Rank(l[i].name) <= Rank(l[j].name)
         IN  <<l[m]>> \o SortByName(SubSeq(l, 1, m - 1) \o SubSeq(l, m + 1, Len(l)))

\* ioutil.ReadDir without its sort: the entries in the order the OS reports
ReadDir_Unsorted(p) ==
    LET d == IF \E t \in DOMAIN hookFs : p = Join(HookRoot, <<t>>)
             THEN hookFs[CHOOSE t \in DOMAIN hookFs : p = Join(HookRoot, <<t>>)]
             ELSE [kind |-> "absent", entries |-> <<>>]
    IN  IF d.kind = "absent" THEN [err |-> "ENOENT", files |-> <<>>]
        ELSE IF d.kind = "denied" THEN [err |-> "EACCES", files |-> <<>>]
        ELSE IF d.kind = "notdir" THEN [err |-> "ENOTDIR", files |-> <<>>]
        ELSE [err |-> "nil", files |-> d.entries]

\* ioutil.ReadDir(p): the entries of p sorted by file name, or an error
ReadDir(p) ==
    LET d == IF \E t \in DOMAIN hookFs : p = Join(HookRoot, <<t>>)
             THEN hookFs[CHOOSE t \in DOMAIN hookFs : p = Join(HookRoot, <<t>>)]
             ELSE [kind |-> "absent", entries |-> <<>>]
    IN  IF d.kind = "absent" THEN [err |-> "ENOENT", files |-> <<>>]
        ELSE IF d.kind = "denied" THEN [err |-> "EACCES", files |-> <<>>]
        ELSE IF d.kind = "notdir" THEN [err |-> "ENOTDIR", files |-> <<>>]
        ELSE [err |-> "nil", files |-> SortByName(d.entries)]

\* perm & 0111 != 0
HasExecBit(perm) ==
    \/ perm % 2 = 1
    \/ (perm \div 8) % 2 = 1
    \/ (perm \div 64) % 2 = 1

----------------------------------------------------------------------------
(* isValidHook, oci.go 70-86 *)

isValidHook(file) ==
    IF file.type = "dir" THEN [ok |-> FALSE, err |-> "is a directory"]
    ELSE IF file.type = "symlink" THEN [ok |-> FALSE, err |-> "is a symbolic link"]
    ELSE IF ~HasExecBit(file.perm) THEN [ok |-> FALSE, err |-> "is not executable"]
    ELSE [ok |-> TRUE, err |-> "nil"]

----------------------------------------------------------------------------
(* findHooks, oci.go 89-118.  The result is hooksFound, the only value the *)
(* function returns (it has no error result), and the events the call      *)
(* writes to agentLog.                                                     *)

Hook(hooksPath, name, hookType) ==
    [Path |-> Join(hooksPath, <<name>>), Args |-> <<name, hookType>>]

SkipType(hookType, err) ==
    [msg |-> "Skipping hook type", type |-> hookType, name |-> "", err |-> err]

SkipHook(name, err) ==
    [msg |-> "Skipping hook", type |-> "", name |-> name, err |-> err]

AddHook(name, hookType) ==
    [msg |-> "Adding hook", type |-> hookType, name |-> name, err |-> "nil"]

Added(hookType, n) ==
    [msg |-> "Added hooks", type |-> hookType, name |-> "", err |-> "nil", count |-> n]

\* the loop with break in place of continue: a rejected entry ends it
HookLoop_Break(files_, hooksPath, hookType, acc) ==
    LET firstBad == IF \E i \in 1..Len(files_) : ~isValidHook(files_[i]).ok
                    THEN CHOOSE i \in 1..Len(files_) :
                           /\ ~isValidHook(files_[i]).ok
                           /\ \A j \in 1..(i - 1) : isValidHook(files_[j]).ok
                    ELSE Len(files_) + 1
        good == SubSeq(files_, 1, firstBad - 1)
    IN  [hooksFound |-> acc.hooksFound \o
                        [i \in 1..Len(good) |-> Hook(hooksPath, good[i].name, hookType)],
         events |-> acc.events \o
                    [i \in 1..Len(good) |-> AddHook(good[i].name, hookType)] \o
                    (IF firstBad <= Len(files_)
                     THEN <<SkipHook(files_[firstBad].name, isValidHook(files_[firstBad]).err)>>
                     ELSE <<>>)]

RECURSIVE HookLoop(_, _, _, _)
\* the loop of lines 98-113 over files, from the accumulated result acc
HookLoop(files_, hooksPath, hookType, acc) ==
    IF files_ = <<>> THEN acc
    ELSE LET file == Head(files_)
             name == file.name
             v == isValidHook(file)
         IN  IF ~v.ok
             THEN HookLoop(Tail(files_), hooksPath, hookType,
                     [hooksFound |-> acc.hooksFound,
                      events |-> Append(acc.events, SkipHook(name, v.err))])
             ELSE HookLoop(Tail(files_), hooksPath, hookType,
                     [hooksFound |-> Append(acc.hooksFound, Hook(hooksPath, name, hookType)),
                      events |-> Append(acc.events, AddHook(name, hookType))])

\* findHooks without the return of line 95: a failed listing falls through
findHooks_NoReturn(guestHookPath, hookType) ==
    LET hooksPath == Join(guestHookPath, <<hookType>>)
        rd == ReadDir(hooksPath)
        r == HookLoop(rd.files, hooksPath, hookType, [hooksFound |-> <<>>, events |-> <<>>])
        skipped == IF rd.err # "nil" THEN <<SkipType(hookType, rd.err)>> ELSE <<>>
    IN  [hooksFound |-> r.hooksFound,
         events |-> skipped \o Append(r.events, Added(hookType, Len(r.hooksFound)))]

findHooks(guestHookPath, hookType) ==
    LET hooksPath == Join(guestHookPath, <<hookType>>)
        rd == ReadDir(hooksPath)
        r == HookLoop(rd.files, hooksPath, hookType, [hooksFound |-> <<>>, events |-> <<>>])
    IN  IF rd.err # "nil"
        THEN [hooksFound |-> <<>>, events |-> <<SkipType(hookType, rd.err)>>]
        ELSE [hooksFound |-> r.hooksFound,
              events |-> Append(r.events, Added(hookType, Len(r.hooksFound)))]

Discover ==
    \E guestHookPath \in HookRoots, hookType \in HookTypes :
        LET r == findHooks(guestHookPath, hookType) IN
        /\ last' = [op |-> "discover", root |-> guestHookPath, type |-> hookType,
                    hooksFound |-> r.hooksFound, events |-> r.events]
        /\ UNCHANGED <<dirs, files, cwd, privileged, hookFs,
                       persistCalled, persistOpened, persistOk, section>>

----------------------------------------------------------------------------
(* Callers of changeToBundlePath.  A caller runs changeToBundlePath, works *)
(* in the bundle, and restores the working directory with os.Chdir of the  *)
(* value changeToBundlePath returned.  A section is overlapped when another *)
(* caller's section was open at some moment of it.                         *)

\* the path string of a returned working directory
RetPath(ret) == IF ret = NoDir THEN EmptyPath ELSE AbsPath(ret)

OpenSections == { d \in Callers : section[d].open }

CallerEnterBundle(c) ==
    /\ ~section[c].open
    /\ \E spec \in Specs, containerId \in ContainerIds :
        LET r == changeToBundlePath(spec, containerId) IN
        /\ cwd' = r.newCwd
        /\ section' = [d \in Callers |->
              IF d = c
              THEN [open |-> TRUE, before |-> cwd, ret |-> r.cwd,
                    overlapped |-> OpenSections # {}]
              ELSE IF section[d].open
                   THEN [section[d] EXCEPT !.overlapped = TRUE]
                   ELSE section[d]]
    /\ last' = [op |-> "enterSection", caller |-> c]
    /\ UNCHANGED <<dirs, files, privileged, hookFs,
                   persistCalled, persistOpened, persistOk>>

CallerRestore(c) ==
    /\ section[c].open
    /\ LET after == IF ChdirErr(cwd, RetPath(section[c].ret)) = "nil"
                    THEN Resolve(cwd, RetPath(section[c].ret))
                    ELSE cwd
       IN  /\ cwd' = after
           /\ last' = [op |-> "restore", before |-> section[c].before,
                       from |-> cwd, after |-> after,
                       overlapped |-> section[c].overlapped]
    /\ section' = [section EXCEPT ![c] = NoSection]
    /\ UNCHANGED <<dirs, files, privileged, hookFs,
                   persistCalled, persistOpened, persistOk>>

Init ==
    /\ dirs = InitialDirs
    /\ files = << >>
    /\ cwd = <<>>
    /\ privileged \in BOOLEAN
    /\ hookFs = [t \in HookTypes |->
                    IF t = "prestart" THEN Listable(ExampleListing)
                    ELSE [kind |-> "absent", entries |-> <<>>]]
    /\ last = NoCall
    /\ persistCalled = {}
    /\ persistOpened = {}
    /\ persistOk = {}
    /\ section = [c \in Callers |-> NoSection]

Next == Persist \/ EnterBundle \/ Discover

Spec == Init /\ [][Next]_vars

\* the hook tree enumerated: prestart in every state a directory can be in
InitHooks ==
    /\ dirs = InitialDirs
    /\ files = << >>
    /\ cwd = <<>>
    /\ privileged = TRUE
    /\ \E d \in Unlistable \cup { Listable(l) : l \in Listings } :
          hookFs = [t \in HookTypes |->
                      IF t = "prestart" THEN d ELSE [kind |-> "absent", entries |-> <<>>]]
    /\ last = NoCall
    /\ persistCalled = {}
    /\ persistOpened = {}
    /\ persistOk = {}
    /\ section = [c \in Callers |-> NoSection]

\* the persist calls of the callers: one spec, one container
CallerPersist ==
    PersistOf({ SpecOf(AbsPath(<<"bundles", "c1", "rootfs">>)) }, { "c1" })

NextCallers ==
    \/ CallerPersist
    \/ Discover
    \/ \E c \in Callers : CallerEnterBundle(c)
    \/ \E c \in Callers : CallerRestore(c)

SpecCallers == Init /\ [][NextCallers]_vars

NextHooks == Discover

SpecHooks == InitHooks /\ [][NextHooks]_vars

----------------------------------------------------------------------------
(* Properties of changeToBundlePath and writeSpecToFile, under Spec *)

\* the last call is a changeToBundlePath that got past the spec check
EnteredWellFormed == last.op = "enterBundle" /\ WellFormed(last.spec)

\* C1: changeToBundlePath with a well-formed spec, called when writeSpecToFile
\* has not yet been called for that container id, returns "invalid OCI bundle"
\* and the working directory after the call is the one before it.
C1_EnterBeforePersist ==
    (EnteredWellFormed /\ last.id \notin persistCalled)
        => (last.err = InvalidBundle /\ cwd = last.cwdBefore)

\* C1's case: the id was never persisted while another id was, successfully
C1_Witness ==
    /\ EnteredWellFormed
    /\ last.id \notin persistCalled
    /\ persistOk # {}
    /\ last.err = InvalidBundle

\* C2: whatever changeToBundlePath returns as its error (nil, invalid spec,
\* invalid bundle, a failed chdir), the first value it returns is the working
\* directory of the process at the moment the call began.
C2_ReturnsPreCallCwd ==
    last.op = "enterBundle" => last.ret = last.cwdBefore

\* C2's case: a call that started away from the initial directory, failed
\* with invalid bundle, and returned the directory it started in
C2_Witness ==
    /\ last.op = "enterBundle"
    /\ last.err = InvalidBundle
    /\ last.cwdBefore # <<>>
    /\ last.ret = last.cwdBefore

\* C3: right after any writeSpecToFile call for a container id, os.Stat of
\* /run/libcontainer/<id>/config.json succeeds, whatever calls came before,
\* earlier calls for the same id included.
C3_ExistsAfterPersist ==
    last.op = "persist"
        => Exists(ociConfigBasePath \o <<last.id, ociConfigFile>>)

\* C3's case: a persist of a well-formed spec for an id that had its file
\* already, refused by the file's mode 0444, the file still there
C3_Witness ==
    /\ last.op = "persist"
    /\ WellFormed(last.spec)
    /\ last.hadFile
    /\ last.err = "EACCES"
    /\ Exists(ociConfigBasePath \o <<last.id, ociConfigFile>>)

\* C4: after a writeSpecToFile(s2, id) that returns nil and follows an earlier
\* one for the same id, the content of config.json is exactly the encoding of
\* s2, with nothing of the earlier content left.
C4_OverwriteExact ==
    (last.op = "persist" /\ last.err = "nil" /\ last.hadFile)
        => files[CanonicalConfigPath(last.id)].data = Encode(last.spec)

\* C9 as claimed: changeToBundlePath passes its bundle check only if an
\* earlier writeSpecToFile for the same id returned nil.
C9_OnlyAfterSuccessfulPersist ==
    (EnteredWellFormed /\ last.err # InvalidBundle) => last.id \in persistOk

\* C9 as amended: changeToBundlePath passes its bundle check exactly when an
\* earlier writeSpecToFile for the same id got past OpenFile, whether it then
\* returned nil or the error of a failed encoding.
C9_PassesIffFileCreated ==
    EnteredWellFormed => (last.err # InvalidBundle <=> last.id \in persistOpened)

\* C9's case: the bundle check passes for an id whose every persist failed
C9_Witness ==
    /\ EnteredWellFormed
    /\ last.err # InvalidBundle
    /\ last.id \in persistOpened
    /\ last.id \notin persistOk

----------------------------------------------------------------------------
(* Properties of findHooks, under SpecHooks *)

\* the last call listed a directory that exists and can be read
Listed ==
    /\ last.op = "discover"
    /\ last.root = HookRoot
    /\ hookFs[last.type].kind = "dir"

\* the last call's listing failed
ListingFailed ==
    /\ last.op = "discover"
    /\ (last.root # HookRoot \/ hookFs[last.type].kind # "dir")

\* the entries of the directory the last call listed, in the OS's order
OsEntries == hookFs[last.type].entries

\* the indices of the descriptors for the entry named name
DescriptorsOf(name) ==
    { i \in 1..Len(last.hooksFound) : last.hooksFound[i].Args[1] = name }

\* the file names of the descriptors, in order
DescriptorNames == [i \in 1..Len(last.hooksFound) |-> last.hooksFound[i].Args[1]]

\* C5: for a listable directory, findHooks returns one descriptor for each
\* entry isValidHook accepts, wherever rejected entries stand among them, none
\* for a rejected entry and none besides; the descriptor of entry e has
\* Path = hookRoot/hookType/e and Args = [e, hookType].
C5_OnePerAcceptedEntry ==
    Listed =>
        /\ \A k \in 1..Len(OsEntries) :
             IF isValidHook(OsEntries[k]).ok
             THEN /\ Cardinality(DescriptorsOf(OsEntries[k].name)) = 1
                  /\ \A i \in DescriptorsOf(OsEntries[k].name) :
                       /\ last.hooksFound[i].Path =
                            last.root \o <<last.type, OsEntries[k].name>>
                       /\ last.hooksFound[i].Args = <<OsEntries[k].name, last.type>>
             ELSE DescriptorsOf(OsEntries[k].name) = {}
        /\ \A i \in 1..Len(last.hooksFound) :
             \E k \in 1..Len(OsEntries) : OsEntries[k].name = last.hooksFound[i].Args[1]

\* C5's case: a rejected entry is listed before an accepted one, which is found
C5_Witness ==
    /\ Listed
    /\ Len(OsEntries) = 2
    /\ \E k, m \in 1..2 :
         /\ Rank(OsEntries[k].name) < Rank(OsEntries[m].name)
         /\ ~isValidHook(OsEntries[k]).ok
         /\ isValidHook(OsEntries[m]).ok
    /\ Len(last.hooksFound) = 1

\* C6: every descriptor findHooks returns is for an entry that is a regular
\* file (no directory, symlink, FIFO, socket or device) with an execute bit.
C6_OnlyRegularExecutable ==
    Listed =>
        \A i \in 1..Len(last.hooksFound) :
            \E k \in 1..Len(OsEntries) :
                /\ OsEntries[k].name = last.hooksFound[i].Args[1]
                /\ OsEntries[k].type = "regular"
                /\ HasExecBit(OsEntries[k].perm)

\* the names of the entries of l that isValidHook accepts, in l's order
RECURSIVE AcceptedNames(_)
AcceptedNames(l) ==
    IF l = <<>> THEN <<>>
    ELSE (IF isValidHook(Head(l)).ok THEN <<Head(l).name>> ELSE <<>>)
         \o AcceptedNames(Tail(l))

\* C7 as claimed: the descriptors are in the order in which the OS reports
\* the entries.
C7_OsOrder ==
    Listed => DescriptorNames = AcceptedNames(OsEntries)

\* C7 as amended: the descriptors are in ascending order of file name, the
\* order of ioutil.ReadDir's result, whatever order the OS reports.
C7_NameOrder ==
    Listed =>
        \A i, j \in 1..Len(last.hooksFound) :
            i < j => Rank(last.hooksFound[i].Args[1]) < Rank(last.hooksFound[j].Args[1])

\* C7's case: the OS reports two accepted entries in descending name order
C7_Witness ==
    /\ Listed
    /\ Len(OsEntries) = 2
    /\ Rank(OsEntries[1].name) > Rank(OsEntries[2].name)
    /\ Len(last.hooksFound) = 2
    /\ DescriptorNames = <<OsEntries[2].name, OsEntries[1].name>>

\* C8: when the listing fails (no such directory, permission denied, not a
\* directory), findHooks returns no descriptor and writes one event, the
\* skipped hook type with the listing's error, and no per-hook event.
C8_ListingFailure ==
    ListingFailed =>
        /\ last.hooksFound = <<>>
        /\ Len(last.events) = 1
        /\ last.events[1].msg = "Skipping hook type"
        /\ last.events[1].type = last.type
        /\ last.events[1].err # "nil"

\* C8's case: the directory exists and may not be read
C8_Witness ==
    /\ ListingFailed
    /\ last.root = HookRoot
    /\ hookFs[last.type].kind = "denied"
    /\ last.events = <<SkipType(last.type, "EACCES")>>

----------------------------------------------------------------------------
(* Property of the callers' sections, under SpecCallers *)

\* C10: when a caller restores the working directory at the end of a section
\* that no other caller's section overlapped, the working directory is the
\* one of the moment the section began, whatever changeToBundlePath returned
\* and whatever persist and discover calls ran meanwhile.
C10_SerializedSectionRestores ==
    (last.op = "restore" /\ ~last.overlapped) => cwd = last.before

\* C10's case: a section alone moved the working directory and put it back
C10_Witness ==
    /\ last.op = "restore"
    /\ ~last.overlapped
    /\ last.from # last.before
    /\ cwd = last.before

====
